---- MODULE Spec2Model ----
(***************************************************************************)
(* Job-processing core of the quantization platform.                      *)
(*                                                                         *)
(* The repository holds two job-processing stacks, each working on a      *)
(* table "jobs":                                                           *)
(*   - the repository stack: JobsRepository (infrastructure/database/     *)
(*     jobs.rs), the create_job route with the pipeline task it spawns    *)
(*     (api/routes/jobs.rs, core/quantization/pipeline.rs) and the        *)
(*     QuantizationWorker with its stuck-job check                        *)
(*     (workers/quantization_worker.rs);                                  *)
(*   - the service stack: Database (services/database.rs), JobQueue       *)
(*     (services/queue.rs), JobService (core/job_service.rs) and the      *)
(*     cancel handler (api/job.rs).                                       *)
(* SpecRepository runs the first, SpecService the second.                 *)
(* Every SQL statement, every Redis command and every lock-protected      *)
(* section is one atomic step; a function that reads a row and later      *)
(* updates it is two steps.  A step that only decides a task's own next   *)
(* position (an engine result) is taken together with the task's next     *)
(* statement.                                                             *)
(***************************************************************************)
EXTENDS Integers, Sequences, FiniteSets, TLC

\* ------------------------------------------------------------------ bounds
MaxJobs == 2
MaxTicks == 1
\* WorkerConfig.max_concurrent_jobs / JobService.max_concurrent_jobs as configured.
MaxConcurrent == 1
\* Calls of enqueue made on a queue, and callers of dequeue running at a time.
MaxEnqueues == 3
MaxDequeuers == 2
\* Rows of table credit_transactions.
MaxTx == 4
MaxExecutors == 2

\* ------------------------------------------------------- program constants
job_timeout_minutes == 120
stuck_minutes == 30
jobs_retention_days == 30

\* The clock advances by one job timeout, or by half of it: a time between
\* the monitor's cutoff and the job timeout.
TickMinutes == job_timeout_minutes
TickSteps == {TickMinutes \div 2, TickMinutes}
MaxTime == MaxTicks * TickMinutes

JobIds == 1..MaxJobs
Dequeuers == 1..MaxDequeuers
NULL == 0 - 1

\* Sizes in units of 250,000,000 bytes.
OriginalSizes == {4}
QuantizedSizes == {1}
\* The sizes of SpecCompletion: an upload of any size, an output smaller or
\* larger than it.
UploadSizes == {3, 4}
OutputSizes == {1, 5}

\* SubscriptionPlan::queue_priority: Free 1, Starter 2, Pro 3.
Priorities == {1, 2, 3}

VARIABLES
    now,         \* Utc::now(), in minutes
    jobs,        \* the rows of table "jobs", by id
    pipe,        \* per job: the task spawned by the create_job route
    active_jobs, \* QuantizationWorker.active_jobs
    permits,     \* QuantizationWorker.concurrency_limiter (free permits)
    wloop,       \* QuantizationWorker::start, position of the loop
    wtask,       \* per job: the task spawned by poll_and_process_jobs
    submit,      \* per job: JobService::create_job in progress
    queue,       \* JobQueue: the three Redis lists
    svc_active,  \* JobService.active_jobs of the service the loop runs on
    sloop,       \* JobService::start_worker, position of the loop
    stask,       \* per job: the task spawned by process_next_job
    cancel,      \* per job: a cancel request in progress
    deq,         \* per caller of JobQueue::dequeue: its position and last result
    enqueued,    \* per job id: the JobQueue::enqueue calls that returned Ok
    returned,    \* per job id: the times JobQueue::dequeue returned the id
    rq,          \* RedisQueue: the sorted sets jobs:priority and jobs:default
    rq_stamp,    \* RedisQueue: Utc::now() of enqueue_job, as a count of calls
    rdeq,        \* the caller of RedisQueue::dequeue_job: position, last result
    sub,         \* the owner's active row of table subscriptions
    req,         \* per submission: the create_job route in progress
    credit_tx,   \* the owner's rows of table credit_transactions, oldest first
    bill,        \* the result of the last BillingService call
    dl,          \* the last download_result request and its response
    lock         \* the holder of the Mutex of active_jobs, NULL when it is free

vars == <<now, jobs, pipe, active_jobs, permits, wloop, wtask,
          submit, queue, svc_active, sloop, stask, cancel,
          deq, enqueued, returned, rq, rq_stamp, rdeq,
          sub, req, credit_tx, bill, dl, lock>>
workerVars == <<active_jobs, permits, wloop, wtask>>
repoVars == <<pipe, active_jobs, permits, wloop, wtask>>
serviceVars == <<submit, queue, svc_active, sloop, stask, cancel>>
jobQueueVars == <<deq, enqueued, returned>>
redisVars == <<rq, rq_stamp, rdeq>>
submitVars == <<sub, req>>
billingVars == <<credit_tx, bill>>
otherVars == <<jobQueueVars, redisVars, submitVars, billingVars, dl, lock>>

\* ---------------------------------------------------------------- statuses
\* domain::JobStatus (stored lowercase) has Queued, models::JobStatus (stored
\* snake_case) has Pending for the initial status.
Terminal == {"Completed", "Failed", "Cancelled"}
Initial == {"Queued", "Pending"}

\* A row that does not exist, and the columns of one that does.  output_ref is
\* download_url in the repository stack and output_file_id in the service stack.
NoRow ==
    [status |-> "Absent", error_message |-> "none", original_size |-> NULL,
     quantized_size |-> NULL, reduction_percent |-> NULL, output_ref |-> "none",
     progress |-> 0, created_at |-> NULL, updated_at |-> NULL,
     started_at |-> NULL, completed_at |-> NULL, processing_time |-> NULL,
     credits_used |-> NULL, download_token |-> NULL]

Exists(j) == jobs[j].status # "Absent"

\* A spawned task: its position, when it started, the engine's result size, the
\* status its repository call read (current_job.status, while the call is
\* between its read and its UPDATE) and the result of its last repository call.
IdleTask == [pc |-> "idle", t0 |-> NULL, q |-> NULL, obs |-> "none", res |-> "none"]

EmptyQueue == [high |-> <<>>, normal |-> <<>>, low |-> <<>>]

\* PlanName::monthly_credits.
monthly_credits(plan) ==
    IF plan = "Free" THEN 1 ELSE IF plan = "Starter" THEN 10 ELSE 1000

\* The plans of the owner's subscription.
Plans == {"Free", "Starter"}

\* A create_job request: its position, the method asked for, credits_used as
\* consume_credit read it, and the response.
IdleRequest == [pc |-> "idle", method |-> "none", used |-> NULL, res |-> "none"]

Init ==
    /\ now = 0
    /\ jobs = [j \in JobIds |-> NoRow]
    /\ pipe = [j \in JobIds |-> IdleTask]
    /\ active_jobs = {}
    /\ permits = MaxConcurrent
    /\ wloop = [pc |-> "top", set |-> {}, cur |-> NULL, obs |-> "none"]
    /\ wtask = [j \in JobIds |-> IdleTask]
    /\ submit = [j \in JobIds |-> [pc |-> "idle", priority |-> NULL]]
    /\ queue = EmptyQueue
    /\ svc_active = <<>>
    /\ sloop = "top"
    /\ stask = [j \in JobIds |-> IdleTask]
    /\ cancel = [j \in JobIds |-> [pc |-> "idle", progress |-> NULL, res |-> "none"]]
    /\ deq = [d \in Dequeuers |-> [pc |-> "top", ret |-> NULL]]
    /\ enqueued = [j \in JobIds |-> 0]
    /\ returned = [j \in JobIds |-> 0]
    /\ rq = [priority |-> {}, default |-> {}]
    /\ rq_stamp = 0
    /\ rdeq = [pc |-> "idle", ret |-> NULL]
    /\ sub \in {[monthly_credits |-> monthly_credits(plan), credits_used |-> 0] :
                    plan \in Plans}
    /\ req = [j \in JobIds |-> IdleRequest]
    /\ credit_tx = <<>>
    /\ bill = "none"
    /\ dl = [job |-> NULL, token |-> NULL, res |-> "none"]
    /\ lock = NULL

\* ------------------------------------------- JobsRepository (repository stack)
\* The row inserted with the status of a job in progress.
CreateRowProcessing(size) ==
    [NoRow EXCEPT !.status = "Processing", !.original_size = size,
                  !.created_at = now, !.updated_at = now]

\* generate_download_token: a fresh token for each row; the id of the row
\* stands for the random string.
generate_download_token(j) == j

\* INSERT of JobsRepository::create: status queued, both timestamps now.
CreateRow(size) ==
    [NoRow EXCEPT !.status = "Queued", !.original_size = size,
                  !.created_at = now, !.updated_at = now]

\* A guard that lets a completed job through.
RepoRejectsFailedOnly(j) == jobs[j].status = "Failed"

\* The guard shared by update_status, complete_job and fail_job.
RepoRejects(j) == jobs[j].status \in {"Completed", "Failed"}

\* The Err of the guard, or no result yet.
GuardResult(j) == IF RepoRejects(j) THEN "AlreadyCompleted" ELSE "none"

\* current_job.status of a call that passed the guard.
Observed(j) == IF RepoRejects(j) THEN "none" ELSE jobs[j].status

\* UPDATE of update_status.
UpdateStatusRow(j, new_status) ==
    [jobs EXCEPT ![j].status = new_status, ![j].updated_at = now]

\* The quotient a / b (b > 0) to the nearest integer.
Nearest(a, b) == (2 * a + b) \div (2 * b)

\* reduction_percent of complete_job, in thousandths of a percent: the f64
\* quotient times 100.0, cast to f32.
ReductionPercent(original, quantized) ==
    IF original > 0 THEN Nearest((original - quantized) * 100000, original) ELSE 0

\* An UPDATE of complete_job that issues a new token with the download URL.
CompleteJobRowNewToken(j, q) ==
    [jobs EXCEPT ![j].quantized_size = q,
                 ![j].reduction_percent = ReductionPercent(jobs[j].original_size, q),
                 ![j].output_ref = "url",
                 ![j].status = "Completed",
                 ![j].updated_at = now,
                 ![j].download_token = generate_download_token(j) + MaxJobs]

\* UPDATE of complete_job.
CompleteJobRow(j, q) ==
    [jobs EXCEPT ![j].quantized_size = q,
                 ![j].reduction_percent = ReductionPercent(jobs[j].original_size, q),
                 ![j].output_ref = "url",
                 ![j].status = "Completed",
                 ![j].updated_at = now]

\* A fail_job whose UPDATE writes nothing.
FailJobRowNone(j, msg) == jobs

\* UPDATE of fail_job.
FailJobRow(j, msg) ==
    [jobs EXCEPT ![j].error_message = msg, ![j].status = "Failed",
                 ![j].updated_at = now]

\* ------------------------------------------------ create_job route + pipeline
\* SubscriptionsRepository::has_credits_available.
has_credits_available == sub.credits_used < sub.monthly_credits

\* routes::create_job, its statements in one step: the credit check passes, the
\* row is inserted, one credit is consumed and QuantizationPipeline::process_job
\* is spawned.  SpecSubmit below takes the statements one by one.
RouteCreateJob(j, size) ==
    /\ ~Exists(j)
    /\ \A k \in JobIds : k < j => Exists(k)
    /\ has_credits_available
    /\ jobs' = [jobs EXCEPT ![j] = [CreateRow(size) EXCEPT
                                       !.download_token = generate_download_token(j)]]
    /\ sub' = [sub EXCEPT !.credits_used = @ + 1]
    /\ pipe' = [pipe EXCEPT ![j] = [IdleTask EXCEPT !.pc = "run"]]
    /\ UNCHANGED <<now, workerVars, serviceVars, jobQueueVars, redisVars, req,
                   billingVars, dl, lock>>

\* process_job: the engine returned q bytes; complete_job, get_by_id and guard.
\* A rejection is the Err process_job returns to the route's closure.
PipeCompleteRead(j, q) ==
    /\ pipe[j].pc = "run"
    /\ pipe' = [pipe EXCEPT ![j].pc = IF RepoRejects(j) THEN "hfail" ELSE "complete_w",
                            ![j].q = q,
                            ![j].obs = Observed(j),
                            ![j].res = GuardResult(j)]
    /\ UNCHANGED <<now, jobs, workerVars, serviceVars, otherVars>>

\* complete_job, UPDATE; then save_quantization_report, which may fail.
PipeCompleteWrite(j) ==
    /\ pipe[j].pc = "complete_w"
    /\ jobs' = CompleteJobRow(j, pipe[j].q)
    /\ \E next \in {"done", "hfail"} :
           pipe' = [pipe EXCEPT ![j].pc = next, ![j].obs = "none", ![j].res = "Ok"]
    /\ UNCHANGED <<now, workerVars, serviceVars, otherVars>>

\* process_job: the engine returned an error; fail_job, get_by_id and guard.
PipeFailRead(j) ==
    /\ pipe[j].pc = "run"
    /\ pipe' = [pipe EXCEPT ![j].pc = IF RepoRejects(j) THEN "hfail" ELSE "fail_w",
                            ![j].obs = Observed(j),
                            ![j].res = GuardResult(j)]
    /\ UNCHANGED <<now, jobs, workerVars, serviceVars, otherVars>>

\* fail_job, UPDATE.
PipeFailWrite(j) ==
    /\ pipe[j].pc = "fail_w"
    /\ jobs' = FailJobRow(j, "quantization")
    /\ pipe' = [pipe EXCEPT ![j].pc = "done", ![j].obs = "none", ![j].res = "Ok"]
    /\ UNCHANGED <<now, workerVars, serviceVars, otherVars>>

\* process_job: download_file, generate_report or upload_file failed, the Err
\* reaches the route's closure.
PipeInfraErr(j) ==
    /\ pipe[j].pc = "run"
    /\ pipe' = [pipe EXCEPT ![j].pc = "hfail", ![j].res = "InfraError"]
    /\ UNCHANGED <<now, jobs, workerVars, serviceVars, otherVars>>

\* The route's closure: fail_job, get_by_id and guard; the result is dropped.
HandlerFailRead(j) ==
    /\ pipe[j].pc = "hfail"
    /\ pipe' = [pipe EXCEPT ![j].pc = IF RepoRejects(j) THEN "done" ELSE "hfail_w",
                            ![j].obs = Observed(j)]
    /\ UNCHANGED <<now, jobs, workerVars, serviceVars, otherVars>>

\* The route's closure: fail_job, UPDATE.
HandlerFailWrite(j) ==
    /\ pipe[j].pc = "hfail_w"
    /\ jobs' = FailJobRow(j, "quantization")
    /\ pipe' = [pipe EXCEPT ![j].pc = "done", ![j].obs = "none"]
    /\ UNCHANGED <<now, workerVars, serviceVars, otherVars>>

\* ------------------------------------------------------- QuantizationWorker
\* The rows the query of check_stuck_jobs returns.
StuckJobs ==
    {j \in JobIds : /\ jobs[j].status = "Processing"
                    /\ jobs[j].updated_at < now - stuck_minutes}

\* The rows get_by_status(Queued, 10, 0) returns.
QueuedJobs == {j \in JobIds : jobs[j].status = "Queued"}

\* ORDER BY created_at ASC: the rows of s that may come first.
Oldest(s) == {j \in s : \A k \in s : jobs[j].created_at <= jobs[k].created_at}

\* Where the loop goes when check_stuck_jobs has handled row j of its list.
AfterStuck(j) ==
    [wloop EXCEPT !.set = @ \ {j}, !.cur = NULL, !.obs = "none",
                  !.pc = IF wloop.set = {j} THEN "poll" ELSE "mon"]

\* start: the heartbeat is due and the query of check_stuck_jobs finds rows.
WorkerCheckStuck ==
    /\ wloop.pc = "top"
    /\ StuckJobs # {}
    /\ wloop' = [wloop EXCEPT !.pc = "mon", !.set = StuckJobs]
    /\ UNCHANGED <<now, jobs, pipe, active_jobs, permits, wtask, serviceVars, otherVars>>

\* check_stuck_jobs: fail_job for a row of the list, get_by_id and guard; the
\* result is dropped.
MonitorFailRead(j) ==
    /\ wloop.pc = "mon"
    /\ j \in wloop.set
    /\ wloop' = IF RepoRejects(j) THEN AfterStuck(j)
                ELSE [wloop EXCEPT !.pc = "mon_w", !.cur = j, !.obs = jobs[j].status]
    /\ UNCHANGED <<now, jobs, pipe, active_jobs, permits, wtask, serviceVars, otherVars>>

\* check_stuck_jobs: fail_job, UPDATE.
MonitorFailWrite ==
    /\ wloop.pc = "mon_w"
    /\ jobs' = FailJobRow(wloop.cur, "stuck")
    /\ wloop' = AfterStuck(wloop.cur)
    /\ UNCHANGED <<now, pipe, active_jobs, permits, wtask, serviceVars, otherVars>>

\* poll_and_process_jobs: the query for queued jobs; on an empty answer it
\* returns Ok(0) and the loop sleeps.
WorkerPoll ==
    /\ wloop.pc \in {"top", "poll"}
    /\ wloop' = IF QueuedJobs = {}
                THEN [wloop EXCEPT !.pc = "top"]
                ELSE [wloop EXCEPT !.pc = "iter", !.set = QueuedJobs]
    /\ wloop' # wloop
    /\ UNCHANGED <<now, jobs, pipe, active_jobs, permits, wtask, serviceVars, otherVars>>

\* The membership test skipped: every id passes for new.
containsNever(j) == FALSE

\* active_jobs.contains(&job.id), under the lock.
contains(j) == j \in active_jobs

\* for job in queued_jobs: the id is in active_jobs, continue.
WorkerSkipActive(j) ==
    /\ wloop.pc = "iter"
    /\ j \in Oldest(wloop.set)
    /\ contains(j)
    /\ wloop' = [wloop EXCEPT !.set = @ \ {j}]
    /\ UNCHANGED <<now, jobs, pipe, active_jobs, permits, wtask, serviceVars, otherVars>>

\* for job in queued_jobs: insert the id into active_jobs and drop the lock.
WorkerClaim(j) ==
    /\ wloop.pc = "iter"
    /\ j \in Oldest(wloop.set)
    /\ ~contains(j)
    /\ active_jobs' = active_jobs \cup {j}
    /\ wloop' = [wloop EXCEPT !.pc = "acquire", !.cur = j, !.set = @ \ {j}]
    /\ UNCHANGED <<now, jobs, pipe, permits, wtask, serviceVars, otherVars>>

\* concurrency_limiter.acquire() returns a permit; the task is spawned.
WorkerAcquire ==
    /\ wloop.pc = "acquire"
    /\ permits > 0
    /\ permits' = permits - 1
    /\ wtask' = [wtask EXCEPT ![wloop.cur] = [IdleTask EXCEPT !.pc = "update", !.t0 = now]]
    /\ wloop' = [wloop EXCEPT !.pc = "iter", !.cur = NULL]
    /\ UNCHANGED <<now, jobs, pipe, active_jobs, serviceVars, otherVars>>

\* The for loop is over: poll_and_process_jobs returns.
WorkerIterDone ==
    /\ wloop.pc = "iter"
    /\ wloop.set = {}
    /\ wloop' = [wloop EXCEPT !.pc = "top"]
    /\ UNCHANGED <<now, jobs, pipe, active_jobs, permits, wtask, serviceVars, otherVars>>

\* ---------------------------------------- the task of poll_and_process_jobs
\* The positions inside tokio::time::timeout(process_single_job).
Running == {"update", "update_w", "run", "complete_w"}

Expired(j) == now - wtask[j].t0 >= job_timeout_minutes

\* process_single_job: update_status(Processing), get_by_id and guard; an Err
\* ends process_single_job and the task logs it.
WTaskUpdateRead(j) ==
    /\ wtask[j].pc = "update"
    /\ wtask' = [wtask EXCEPT ![j].pc = IF RepoRejects(j) THEN "release" ELSE "update_w",
                              ![j].obs = Observed(j),
                            ![j].res = GuardResult(j)]
    /\ UNCHANGED <<now, jobs, pipe, active_jobs, permits, wloop, serviceVars, otherVars>>

\* process_single_job: update_status(Processing), UPDATE.
WTaskUpdateWrite(j) ==
    /\ wtask[j].pc = "update_w"
    /\ jobs' = UpdateStatusRow(j, "Processing")
    /\ wtask' = [wtask EXCEPT ![j].pc = "run", ![j].obs = "none", ![j].res = "Ok"]
    /\ UNCHANGED <<now, pipe, active_jobs, permits, wloop, serviceVars, otherVars>>

\* process_single_job: download_file, the engine or upload_file failed; `?`
\* ends process_single_job and the task logs the error.
WTaskEngineErr(j) ==
    /\ wtask[j].pc = "run"
    /\ wtask' = [wtask EXCEPT ![j].pc = "release", ![j].res = "EngineError"]
    /\ UNCHANGED <<now, jobs, pipe, active_jobs, permits, wloop, serviceVars, otherVars>>

\* quantize_onnx / quantize_pytorch: the engine returned q bytes and the upload
\* succeeded; complete_job, get_by_id and guard.
WTaskCompleteRead(j, q) ==
    /\ wtask[j].pc = "run"
    /\ wtask' = [wtask EXCEPT ![j].pc = IF RepoRejects(j) THEN "release" ELSE "complete_w",
                              ![j].q = q,
                              ![j].obs = Observed(j),
                            ![j].res = GuardResult(j)]
    /\ UNCHANGED <<now, jobs, pipe, active_jobs, permits, wloop, serviceVars, otherVars>>

\* complete_job, UPDATE; the report and the cleanup follow.
WTaskCompleteWrite(j) ==
    /\ wtask[j].pc = "complete_w"
    /\ jobs' = CompleteJobRow(j, wtask[j].q)
    /\ wtask' = [wtask EXCEPT ![j].pc = "release", ![j].obs = "none", ![j].res = "Ok"]
    /\ UNCHANGED <<now, pipe, active_jobs, permits, wloop, serviceVars, otherVars>>

\* tokio::time::timeout elapsed: process_single_job is dropped where it is; the
\* timeout arm calls fail_job, get_by_id and guard; the result is dropped.
WTaskTimeout(j) ==
    /\ wtask[j].pc \in Running
    /\ Expired(j)
    /\ wtask' = [wtask EXCEPT ![j].pc = IF RepoRejects(j) THEN "release" ELSE "expired_w",
                              ![j].obs = Observed(j),
                              ![j].res = "Timeout"]
    /\ UNCHANGED <<now, jobs, pipe, active_jobs, permits, wloop, serviceVars, otherVars>>

\* The timeout arm: fail_job, UPDATE.
WTaskExpiredFailWrite(j) ==
    /\ wtask[j].pc = "expired_w"
    /\ jobs' = FailJobRow(j, "expired")
    /\ wtask' = [wtask EXCEPT ![j].pc = "release", ![j].obs = "none"]
    /\ UNCHANGED <<now, pipe, active_jobs, permits, wloop, serviceVars, otherVars>>

\* The end of the task: remove the id from active_jobs, drop the permit.
WTaskRelease(j) ==
    /\ wtask[j].pc = "release"
    /\ active_jobs' = active_jobs \ {j}
    /\ permits' = permits + 1
    /\ wtask' = [wtask EXCEPT ![j] = IdleTask]
    /\ UNCHANGED <<now, jobs, pipe, wloop, serviceVars, otherVars>>

\* ------------------------------------------------ Database (service stack)
\* No row is written.
NewJobRowNone(credits_cost) == NoRow

\* Job::new and the INSERT of Database::create_job.
NewJobRow(credits_cost) ==
    [NoRow EXCEPT !.status = "Pending", !.progress = 0, !.created_at = now,
                  !.credits_used = credits_cost]

\* Database::update_job_status: the statement for Processing has WHERE id and
\* sets started_at; the statement for any other status has no WHERE clause.
update_job_status(j, status, progress) ==
    IF status = "Processing"
    THEN [jobs EXCEPT ![j].status = status, ![j].progress = progress,
                      ![j].updated_at = now, ![j].started_at = now]
    ELSE [k \in JobIds |->
            IF Exists(k)
            THEN [jobs[k] EXCEPT !.status = status, !.progress = progress,
                                 !.updated_at = now]
            ELSE jobs[k]]

\* An update_job_completion that also writes credits_used, from a Job whose
\* cost was not loaded.
update_job_completion_uncosted(j, q, t0) ==
    [jobs EXCEPT ![j].status = "Completed", ![j].progress = 100,
                 ![j].output_ref = "file", ![j].quantized_size = q,
                 ![j].processing_time = (now - t0) * 60,
                 ![j].completed_at = now, ![j].updated_at = now,
                 ![j].credits_used = 0]

\* Job::complete and Database::update_job_completion; t0 is job.started_at.
update_job_completion(j, q, t0) ==
    [jobs EXCEPT ![j].status = "Completed", ![j].progress = 100,
                 ![j].output_ref = "file", ![j].quantized_size = q,
                 ![j].processing_time = (now - t0) * 60,
                 ![j].completed_at = now, ![j].updated_at = now]

\* Job::can_be_cancelled.
can_be_cancelled(row) == row.status = "Pending"

\* ------------------------------------------------------------- JobQueue
\* SubscriptionPlan and SubscriptionPlan::queue_priority.
SubscriptionPlans == {"Free", "Starter", "Pro"}

queue_priority(plan) ==
    IF plan = "Free" THEN 1 ELSE IF plan = "Starter" THEN 2 ELSE 3

\* The list enqueue chooses for a priority.
QueueName(priority) ==
    IF priority = 3 THEN "high" ELSE IF priority = 2 THEN "normal" ELSE "low"

\* The order in which dequeue tries the lists, and the loop position at each.
NextQueue == [high |-> "rpop_normal", normal |-> "rpop_low", low |-> "top"]
QueueAt == [top |-> "high", rpop_normal |-> "normal", rpop_low |-> "low"]

lpush(list, j) == <<j>> \o list
\* An rpop that reads the tail and leaves it in the list.
rpopKeep(list) == list

rpop(list) == SubSeq(list, 1, Len(list) - 1)
rpopped(list) == list[Len(list)]

\* ------------------------------------------------------------- JobService
\* calculate_job_cost: base_cost of the method times size_factor of the
\* file's parameter_count (in billions).
QuantizationMethods == {"Int8", "Gptq"}
ParameterCounts == {7, 34}

base_cost(method) == IF method \in {"Gptq", "Awq"} THEN 2 ELSE 1

size_factor(params) == IF params > 70 THEN 3 ELSE IF params > 13 THEN 2 ELSE 1

calculate_job_cost(method, params) == base_cost(method) * size_factor(params)

\* create_job: the checks pass and the row is inserted with the cost.
create_job(j, priority, credits_cost) ==
    /\ ~Exists(j)
    /\ \A k \in JobIds : k < j => Exists(k)
    /\ jobs' = [jobs EXCEPT ![j] = NewJobRow(credits_cost)]
    /\ submit' = [submit EXCEPT ![j] = [pc |-> "enqueue", priority |-> priority]]
    /\ UNCHANGED <<now, repoVars, queue, svc_active, sloop, stask, cancel, otherVars>>

\* create_job for an Int8 job on a model of 7 billion parameters.
SvcCreateJob(j, priority) == create_job(j, priority, calculate_job_cost("Int8", 7))

\* create_job: the INSERT of db.create_job fails; `?` returns the error.
SvcCreateJobErr(j) ==
    /\ ~Exists(j)
    /\ \A k \in JobIds : k < j => Exists(k)
    /\ submit[j].pc = "idle"
    /\ submit' = [submit EXCEPT ![j].pc = "failed"]
    /\ UNCHANGED <<now, jobs, repoVars, queue, svc_active, sloop, stask, cancel, otherVars>>

\* create_job: queue.enqueue(job.id, priority).
SvcEnqueue(j) ==
    /\ submit[j].pc = "enqueue"
    /\ LET name == QueueName(submit[j].priority)
       IN queue' = [queue EXCEPT ![name] = lpush(@, j)]
    /\ submit' = [submit EXCEPT ![j].pc = "done"]
    /\ UNCHANGED <<now, jobs, repoVars, svc_active, sloop, stask, cancel, otherVars>>

\* process_next_job: below the limit, dequeue tries one list; on an id it
\* pushes the id to active_jobs and spawns process_job on a clone.
process_next_job(name, max_concurrent_jobs) ==
    /\ sloop # "top" \/ Len(svc_active) < max_concurrent_jobs
    /\ name = QueueAt[sloop]
    /\ IF queue[name] = <<>>
       THEN /\ sloop' = NextQueue[name]
            /\ UNCHANGED <<queue, svc_active, stask, otherVars>>
       ELSE /\ queue' = [queue EXCEPT ![name] = rpop(@)]
            /\ svc_active' = Append(svc_active, rpopped(queue[name]))
            /\ stask' = [stask EXCEPT ![rpopped(queue[name])] = [IdleTask EXCEPT !.pc = "start"]]
            /\ sloop' = "top"
    /\ sloop' # sloop \/ queue' # queue
    /\ UNCHANGED <<now, jobs, repoVars, submit, cancel, otherVars>>

\* process_next_job under the limit of the service specification.
SvcDequeue(name) == process_next_job(name, MaxConcurrent)

\* process_job: get_job, job.start(), update_job_status.
SvcStart(j) ==
    /\ stask[j].pc = "start"
    /\ jobs' = update_job_status(j, "Processing", 10)
    /\ stask' = [stask EXCEPT ![j].pc = "run", ![j].t0 = now]
    /\ UNCHANGED <<now, repoVars, submit, queue, svc_active, sloop, cancel, otherVars>>

\* process_job: get_file_metadata, download_file or upload_result failed; `?`
\* ends process_job.  The task's retain works on the clone's own list.
SvcInfraErr(j) ==
    /\ stask[j].pc = "run"
    /\ stask' = [stask EXCEPT ![j] = [IdleTask EXCEPT !.res = "Err"]]
    /\ UNCHANGED <<now, jobs, repoVars, submit, queue, svc_active, sloop, cancel, otherVars>>

\* process_job: the quantizer failed; job.fail(), update_job_status.
SvcEngineErr(j) ==
    /\ stask[j].pc = "run"
    /\ jobs' = update_job_status(j, "Failed", 10)
    /\ stask' = [stask EXCEPT ![j] = [IdleTask EXCEPT !.res = "Err"]]
    /\ UNCHANGED <<now, repoVars, submit, queue, svc_active, sloop, cancel, otherVars>>

\* process_job: the quantizer returned q bytes and the upload succeeded;
\* job.complete(), update_job_completion.
SvcComplete(j, q) ==
    /\ stask[j].pc = "run"
    /\ jobs' = update_job_completion(j, q, stask[j].t0)
    /\ stask' = [stask EXCEPT ![j] = [IdleTask EXCEPT !.res = "Ok"]]
    /\ UNCHANGED <<now, repoVars, submit, queue, svc_active, sloop, cancel, otherVars>>

\* ------------------------------------------------- cancel (api/job.rs)
\* The handler: get_job and can_be_cancelled.
CancelApiCheck(j) ==
    /\ Exists(j)
    /\ cancel[j].pc = "idle"
    /\ cancel' = IF can_be_cancelled(jobs[j])
                 THEN [cancel EXCEPT ![j].pc = "svc", ![j].res = "none"]
                 ELSE [cancel EXCEPT ![j].res = "BadRequest"]
    /\ cancel' # cancel
    /\ UNCHANGED <<now, jobs, repoVars, submit, queue, svc_active, sloop, stask, otherVars>>

\* JobService::cancel_job: get_job and can_be_cancelled.
CancelSvcCheck(j) ==
    /\ cancel[j].pc = "svc"
    /\ cancel' = IF can_be_cancelled(jobs[j])
                 THEN [cancel EXCEPT ![j].pc = "write", ![j].progress = jobs[j].progress]
                 ELSE [cancel EXCEPT ![j].pc = "idle", ![j].res = "JobCannotBeCancelled"]
    /\ UNCHANGED <<now, jobs, repoVars, submit, queue, svc_active, sloop, stask, otherVars>>

\* JobService::cancel_job: job.cancel(), update_job_status.
CancelWrite(j) ==
    /\ cancel[j].pc = "write"
    /\ jobs' = update_job_status(j, "Cancelled", cancel[j].progress)
    /\ cancel' = [cancel EXCEPT ![j].pc = "idle", ![j].progress = NULL, ![j].res = "Ok"]
    /\ UNCHANGED <<now, repoVars, submit, queue, svc_active, sloop, stask, otherVars>>

\* ------------------------------------------------------------------- time
\* Time passes; a timeout that is due fires first.
Tick(d) ==
    /\ now + TickMinutes <= MaxTime
    /\ \A j \in JobIds : wtask[j].pc \in Running => ~Expired(j)
    /\ now' = now + d
    /\ UNCHANGED <<jobs, repoVars, serviceVars, otherVars>>

RepositoryNext ==
    \/ \E j \in JobIds, size \in OriginalSizes : RouteCreateJob(j, size)
    \/ \E j \in JobIds, q \in QuantizedSizes : PipeCompleteRead(j, q)
    \/ \E j \in JobIds : PipeCompleteWrite(j)
    \/ \E j \in JobIds : PipeFailRead(j)
    \/ \E j \in JobIds : PipeFailWrite(j)
    \/ \E j \in JobIds : PipeInfraErr(j)
    \/ \E j \in JobIds : HandlerFailRead(j)
    \/ \E j \in JobIds : HandlerFailWrite(j)
    \/ WorkerCheckStuck
    \/ \E j \in JobIds : MonitorFailRead(j)
    \/ MonitorFailWrite
    \/ WorkerPoll
    \/ \E j \in JobIds : WorkerSkipActive(j)
    \/ \E j \in JobIds : WorkerClaim(j)
    \/ WorkerAcquire
    \/ WorkerIterDone
    \/ \E j \in JobIds : WTaskUpdateRead(j)
    \/ \E j \in JobIds : WTaskUpdateWrite(j)
    \/ \E j \in JobIds : WTaskEngineErr(j)
    \/ \E j \in JobIds, q \in QuantizedSizes : WTaskCompleteRead(j, q)
    \/ \E j \in JobIds : WTaskCompleteWrite(j)
    \/ \E j \in JobIds : WTaskTimeout(j)
    \/ \E j \in JobIds : WTaskExpiredFailWrite(j)
    \/ \E j \in JobIds : WTaskRelease(j)
    \/ \E d \in TickSteps : Tick(d)

SpecRepository == Init /\ [][RepositoryNext]_vars

\* start: one step of the worker's loop.
WorkerLoopStep ==
    \/ WorkerCheckStuck
    \/ \E j \in JobIds : MonitorFailRead(j)
    \/ MonitorFailWrite
    \/ WorkerPoll
    \/ \E j \in JobIds : WorkerSkipActive(j)
    \/ \E j \in JobIds : WorkerClaim(j)
    \/ WorkerAcquire
    \/ WorkerIterDone

\* One step of the task spawned for job j; the engine call returns or is cut
\* by tokio::time::timeout.
WTaskStep(j) ==
    \/ WTaskUpdateRead(j)
    \/ WTaskUpdateWrite(j)
    \/ WTaskEngineErr(j)
    \/ \E q \in QuantizedSizes : WTaskCompleteRead(j, q)
    \/ WTaskCompleteWrite(j)
    \/ WTaskTimeout(j)
    \/ WTaskExpiredFailWrite(j)
    \/ WTaskRelease(j)

\* The worker on its own: jobs are created by the route, whose pipeline tasks
\* are not scheduled.
WorkerNext ==
    \/ \E j \in JobIds, size \in OriginalSizes : RouteCreateJob(j, size)
    \/ WorkerLoopStep
    \/ \E j \in JobIds : WTaskStep(j)
    \/ \E d \in TickSteps : Tick(d)

\* The runtime schedules the loop and every spawned task; the heartbeat check
\* comes first in every iteration of the loop, so a sweep that is due again
\* and again is run.
SpecWorkerFair ==
    /\ Init
    /\ [][WorkerNext]_vars
    /\ WF_vars(WorkerLoopStep)
    /\ SF_vars(WorkerCheckStuck)
    /\ \A j \in JobIds : WF_vars(WTaskStep(j))

\* SpecCompletion: the route and its pipeline, over uploads and outputs of
\* several sizes.
CompletionNext ==
    \/ \E j \in JobIds, size \in UploadSizes : RouteCreateJob(j, size)
    \/ \E j \in JobIds, q \in OutputSizes : PipeCompleteRead(j, q)
    \/ \E j \in JobIds : PipeCompleteWrite(j)
    \/ \E j \in JobIds : PipeFailRead(j)
    \/ \E j \in JobIds : PipeFailWrite(j)
    \/ \E j \in JobIds : PipeInfraErr(j)
    \/ \E d \in TickSteps : Tick(d)

SpecCompletion == Init /\ [][CompletionNext]_vars

\* ------------------------------------------ CleanupWorker (SpecCleanup)
\* SpecCleanup runs the route and its pipeline beside the cleanup cycle.
RetentionMinutes == jobs_retention_days * 24 * 60

\* JobsRepository::cleanup_old_jobs: DELETE FROM jobs WHERE created_at < $1.
cleanup_old_jobs(cutoff_date) ==
    [j \in JobIds |->
        IF Exists(j) /\ jobs[j].created_at < cutoff_date THEN NoRow ELSE jobs[j]]

\* CleanupWorker::cleanup_old_jobs in a cycle that deletes at least one row.
CleanupOldJobs ==
    /\ jobs' = cleanup_old_jobs(now - RetentionMinutes)
    /\ jobs' # jobs
    /\ UNCHANGED <<now, repoVars, serviceVars, otherVars>>

\* A retention period passes.
RetentionTick ==
    /\ now < RetentionMinutes
    /\ now' = now + RetentionMinutes
    /\ UNCHANGED <<jobs, repoVars, serviceVars, otherVars>>

\* The pipeline's next repository call finds no row: every statement returns
\* NotFound and the task ends with the error logged.
PipeRowGone(j) ==
    /\ pipe[j].pc \notin {"idle", "done"}
    /\ ~Exists(j)
    /\ pipe' = [pipe EXCEPT ![j].pc = "done", ![j].obs = "none", ![j].res = "NotFound"]
    /\ UNCHANGED <<now, jobs, workerVars, serviceVars, otherVars>>

\* An id is used for one row only.
CleanupNext ==
    \/ \E j \in JobIds, size \in OriginalSizes :
          pipe[j].pc = "idle" /\ RouteCreateJob(j, size)
    \/ \E j \in JobIds, q \in QuantizedSizes : Exists(j) /\ PipeCompleteRead(j, q)
    \/ \E j \in JobIds : Exists(j) /\ PipeCompleteWrite(j)
    \/ \E j \in JobIds : Exists(j) /\ PipeFailRead(j)
    \/ \E j \in JobIds : Exists(j) /\ PipeFailWrite(j)
    \/ \E j \in JobIds : PipeRowGone(j)
    \/ \E d \in TickSteps : Tick(d)
    \/ RetentionTick
    \/ CleanupOldJobs

SpecCleanup == Init /\ [][CleanupNext]_vars

\* ------------------------------- the Mutex of active_jobs (SpecWorkerLocks)
\* SpecWorkerLocks runs the worker with every lock().await of active_jobs as
\* a step of its own: the loop (and the monitor it calls) and the tasks.
Loop == 0

\* The guard is dropped without a release of the Mutex.
drop_forgotten(holder) == holder

\* drop(active_jobs): the Mutex is free.
drop(holder) == NULL

\* start: the heartbeat is due, self.active_jobs.lock().await for the log line.
HeartbeatLock ==
    /\ wloop.pc = "top"
    /\ lock = NULL
    /\ lock' = Loop
    /\ wloop' = [wloop EXCEPT !.pc = "hb"]
    /\ UNCHANGED <<now, jobs, pipe, active_jobs, permits, wtask, serviceVars,
                   jobQueueVars, redisVars, submitVars, billingVars, dl>>

\* start: .len() is logged and the guard of the statement is dropped; then
\* check_stuck_jobs runs its query.
HeartbeatLen ==
    /\ wloop.pc = "hb"
    /\ lock' = NULL
    /\ wloop' = IF StuckJobs # {}
                THEN [wloop EXCEPT !.pc = "mon", !.set = StuckJobs]
                ELSE [wloop EXCEPT !.pc = "poll"]
    /\ UNCHANGED <<now, jobs, pipe, active_jobs, permits, wtask, serviceVars,
                   jobQueueVars, redisVars, submitVars, billingVars, dl>>

\* for job in queued_jobs: self.active_jobs.lock().await.
LoopLock(j) ==
    /\ wloop.pc = "iter"
    /\ j \in Oldest(wloop.set)
    /\ lock = NULL
    /\ lock' = Loop
    /\ wloop' = [wloop EXCEPT !.pc = "locked", !.cur = j, !.set = @ \ {j}]
    /\ UNCHANGED <<now, jobs, pipe, active_jobs, permits, wtask, serviceVars,
                   jobQueueVars, redisVars, submitVars, billingVars, dl>>

\* The id is in active_jobs: continue, which drops the guard.
LoopSkipActive ==
    /\ wloop.pc = "locked"
    /\ contains(wloop.cur)
    /\ lock' = NULL
    /\ wloop' = [wloop EXCEPT !.pc = "iter", !.cur = NULL]
    /\ UNCHANGED <<now, jobs, pipe, active_jobs, permits, wtask, serviceVars,
                   jobQueueVars, redisVars, submitVars, billingVars, dl>>

\* active_jobs.insert(job.id); drop(active_jobs).
LoopInsert ==
    /\ wloop.pc = "locked"
    /\ ~contains(wloop.cur)
    /\ active_jobs' = active_jobs \cup {wloop.cur}
    /\ lock' = drop(lock)
    /\ wloop' = [wloop EXCEPT !.pc = "acquire"]
    /\ UNCHANGED <<now, jobs, pipe, permits, wtask, serviceVars,
                   jobQueueVars, redisVars, submitVars, billingVars, dl>>

\* concurrency_limiter.acquire() returns a permit and the task is spawned; a
\* guard still alive goes out of scope at the end of the iteration.
LoopAcquire ==
    /\ wloop.pc = "acquire"
    /\ permits > 0
    /\ permits' = permits - 1
    /\ wtask' = [wtask EXCEPT ![wloop.cur] = [IdleTask EXCEPT !.pc = "update", !.t0 = now]]
    /\ wloop' = [wloop EXCEPT !.pc = "iter", !.cur = NULL]
    /\ lock' = IF lock = Loop THEN NULL ELSE lock
    /\ UNCHANGED <<now, jobs, pipe, active_jobs, serviceVars,
                   jobQueueVars, redisVars, submitVars, billingVars, dl>>

\* The task, its permit in hand: worker_clone.active_jobs.lock().await.
TaskLock(j) ==
    /\ wtask[j].pc = "release"
    /\ lock = NULL
    /\ lock' = j
    /\ wtask' = [wtask EXCEPT ![j].pc = "locked"]
    /\ UNCHANGED <<now, jobs, pipe, active_jobs, permits, wloop, serviceVars,
                   jobQueueVars, redisVars, submitVars, billingVars, dl>>

\* active_jobs.remove(&job_clone.id); drop(active_jobs); drop(permit).
TaskUnlock(j) ==
    /\ wtask[j].pc = "locked"
    /\ active_jobs' = active_jobs \ {j}
    /\ lock' = drop(lock)
    /\ permits' = permits + 1
    /\ wtask' = [wtask EXCEPT ![j] = IdleTask]
    /\ UNCHANGED <<now, jobs, pipe, wloop, serviceVars,
                   jobQueueVars, redisVars, submitVars, billingVars, dl>>

WorkerLocksNext ==
    \/ \E j \in JobIds, size \in OriginalSizes : RouteCreateJob(j, size)
    \/ HeartbeatLock
    \/ HeartbeatLen
    \/ \E j \in JobIds : MonitorFailRead(j)
    \/ MonitorFailWrite
    \/ WorkerPoll
    \/ \E j \in JobIds : LoopLock(j)
    \/ LoopSkipActive
    \/ LoopInsert
    \/ LoopAcquire
    \/ WorkerIterDone
    \/ \E j \in JobIds : WTaskUpdateRead(j)
    \/ \E j \in JobIds : WTaskUpdateWrite(j)
    \/ \E j \in JobIds : WTaskEngineErr(j)
    \/ \E j \in JobIds, q \in QuantizedSizes : WTaskCompleteRead(j, q)
    \/ \E j \in JobIds : WTaskCompleteWrite(j)
    \/ \E j \in JobIds : WTaskTimeout(j)
    \/ \E j \in JobIds : WTaskExpiredFailWrite(j)
    \/ \E j \in JobIds : TaskLock(j)
    \/ \E j \in JobIds : TaskUnlock(j)
    \/ \E d \in TickSteps : Tick(d)

SpecWorkerLocks == Init /\ [][WorkerLocksNext]_vars

ServiceNext ==
    \/ \E j \in JobIds, plan \in SubscriptionPlans : SvcCreateJob(j, queue_priority(plan))
    \/ \E j \in JobIds : SvcCreateJobErr(j)
    \/ \E j \in JobIds : SvcEnqueue(j)
    \/ \E name \in {"high", "normal", "low"} : SvcDequeue(name)
    \/ \E j \in JobIds : SvcStart(j)
    \/ \E j \in JobIds : SvcInfraErr(j)
    \/ \E j \in JobIds : SvcEngineErr(j)
    \/ \E j \in JobIds, q \in QuantizedSizes : SvcComplete(j, q)
    \/ \E j \in JobIds : CancelApiCheck(j)
    \/ \E j \in JobIds : CancelSvcCheck(j)
    \/ \E j \in JobIds : CancelWrite(j)
    \/ \E d \in TickSteps : Tick(d)

SpecService == Init /\ [][ServiceNext]_vars

\* The service with MaxExecutors tasks allowed at a time: create_job, the
\* loop of start_worker and the tasks it spawns.
ExecutorsNext ==
    \/ \E j \in JobIds, plan \in SubscriptionPlans : SvcCreateJob(j, queue_priority(plan))
    \/ \E j \in JobIds : SvcEnqueue(j)
    \/ \E name \in {"high", "normal", "low"} : process_next_job(name, MaxExecutors)
    \/ \E j \in JobIds : SvcStart(j)
    \/ \E j \in JobIds : SvcInfraErr(j)
    \/ \E j \in JobIds : SvcEngineErr(j)
    \/ \E j \in JobIds, q \in QuantizedSizes : SvcComplete(j, q)

SpecExecutors == Init /\ [][ExecutorsNext]_vars

\* The service over jobs of every cost: create_job, the loop, its tasks and
\* the cancel handler.
CreditsNext ==
    \/ \E j \in JobIds, plan \in SubscriptionPlans,
          method \in QuantizationMethods, params \in ParameterCounts :
            create_job(j, queue_priority(plan), calculate_job_cost(method, params))
    \/ \E j \in JobIds : SvcEnqueue(j)
    \/ \E name \in {"high", "normal", "low"} : SvcDequeue(name)
    \/ \E j \in JobIds : SvcStart(j)
    \/ \E j \in JobIds : SvcInfraErr(j)
    \/ \E j \in JobIds : SvcEngineErr(j)
    \/ \E j \in JobIds, q \in QuantizedSizes : SvcComplete(j, q)
    \/ \E j \in JobIds : CancelApiCheck(j)
    \/ \E j \in JobIds : CancelSvcCheck(j)
    \/ \E j \in JobIds : CancelWrite(j)

SpecCredits == Init /\ [][CreditsNext]_vars

\* start_worker: one step of the loop that calls process_next_job.
SvcLoopStep == \E name \in {"high", "normal", "low"} : SvcDequeue(name)

\* One step of the task spawned for job j; every quantizer call returns.
STaskStep(j) ==
    \/ SvcStart(j)
    \/ SvcInfraErr(j)
    \/ SvcEngineErr(j)
    \/ \E q \in QuantizedSizes : SvcComplete(j, q)

\* The runtime schedules the interval loop, every spawned task and every
\* create_job request in progress.
SpecServiceFair ==
    /\ SpecService
    /\ WF_vars(SvcLoopStep)
    /\ \A j \in JobIds : WF_vars(STaskStep(j)) /\ WF_vars(SvcEnqueue(j))

\* ------------------------------------ JobQueue, called by any number of callers
\* SpecJobQueue runs enqueue and dequeue of services/queue.rs on their own:
\* enqueue calls with any id and priority, and MaxDequeuers callers of dequeue,
\* each Redis command one step.
RECURSIVE Total(_, _)
Total(f, S) == IF S = {} THEN 0
               ELSE LET x == CHOOSE y \in S : TRUE IN f[x] + Total(f, S \ {x})

\* JobQueue::enqueue: lpush on the list of the priority.
JqEnqueue(j, priority) ==
    /\ Total(enqueued, JobIds) < MaxEnqueues
    /\ queue' = [queue EXCEPT ![QueueName(priority)] = lpush(@, j)]
    /\ enqueued' = [enqueued EXCEPT ![j] = @ + 1]
    /\ UNCHANGED <<now, jobs, repoVars, submit, svc_active, sloop, stask, cancel,
                   deq, returned, redisVars, submitVars, billingVars, dl, lock>>

\* JobQueue::dequeue: rpop on the next list of the for loop; an element is
\* returned, an empty answer moves on, and after the last list None is returned.
JqDequeue(d, name) ==
    /\ name = QueueAt[deq[d].pc]
    /\ IF queue[name] = <<>>
       THEN /\ deq' = [deq EXCEPT ![d].pc = NextQueue[name],
                                  ![d].ret = IF name = "low" THEN NULL ELSE @]
            /\ UNCHANGED <<queue, returned>>
       ELSE /\ queue' = [queue EXCEPT ![name] = rpop(@)]
            /\ deq' = [deq EXCEPT ![d].pc = "top", ![d].ret = rpopped(queue[name])]
            /\ returned' = [returned EXCEPT ![rpopped(queue[name])] = @ + 1]
    /\ deq' # deq \/ queue' # queue
    /\ UNCHANGED <<now, jobs, repoVars, submit, svc_active, sloop, stask, cancel,
                   enqueued, redisVars, submitVars, billingVars, dl, lock>>

JobQueueNext ==
    \/ \E j \in JobIds, priority \in Priorities : JqEnqueue(j, priority)
    \/ \E d \in Dequeuers, name \in {"high", "normal", "low"} : JqDequeue(d, name)

SpecJobQueue == Init /\ [][JobQueueNext]_vars

\* -------------------------------------- RedisQueue (infrastructure/queue/mod.rs)
\* SpecRedisQueue runs enqueue_job and dequeue_job for one caller that makes
\* its calls one after the other.
Methods == {"Int8", "Int4"}

\* enqueue_job: priority of the QueueJob.
QueueJobPriority(method) == IF method = "Int8" THEN 1 ELSE 2

\* enqueue_job: queue_key.
QueueKey(priority) == IF priority > 1 THEN "priority" ELSE "default"

\* The order of a sorted set: by score, members of equal score by the bytes of
\* the member, the JSON of QueueJob, whose first field is job_id and whose only
\* other field that differs between two entries of a job is created_at.
MemberLeq(m, n) ==
    \/ m.priority < n.priority
    \/ /\ m.priority = n.priority
       /\ \/ m.job_id < n.job_id
          \/ m.job_id = n.job_id /\ m.created_at <= n.created_at

\* The member ZPOPMIN takes.
ZMin(set) == CHOOSE m \in set : \A n \in set : MemberLeq(m, n)

\* enqueue_job: zadd of the serialized QueueJob with score priority.
RqEnqueue(j, method) ==
    /\ rdeq.pc = "idle"
    /\ rq_stamp < MaxEnqueues
    /\ LET priority == QueueJobPriority(method)
           member == [job_id |-> j, priority |-> priority, created_at |-> rq_stamp]
       IN rq' = [rq EXCEPT ![QueueKey(priority)] = @ \cup {member}]
    /\ rq_stamp' = rq_stamp + 1
    /\ UNCHANGED <<now, jobs, repoVars, serviceVars, jobQueueVars, rdeq, submitVars, billingVars, dl, lock>>

\* dequeue_job: bzpopmin on jobs:priority; on a timeout the call goes on to
\* jobs:default.
RqDequeuePriority ==
    /\ rdeq.pc = "idle"
    /\ IF rq.priority = {}
       THEN /\ rdeq' = [rdeq EXCEPT !.pc = "default"]
            /\ rq' = rq
       ELSE /\ rdeq' = [rdeq EXCEPT !.ret = ZMin(rq.priority).job_id]
            /\ rq' = [rq EXCEPT !.priority = @ \ {ZMin(rq.priority)}]
    /\ rdeq' # rdeq \/ rq' # rq
    /\ UNCHANGED <<now, jobs, repoVars, serviceVars, jobQueueVars, rq_stamp, submitVars, billingVars, dl, lock>>

\* dequeue_job: bzpopmin on jobs:default; on a timeout the call returns None.
RqDequeueDefault ==
    /\ rdeq.pc = "default"
    /\ IF rq.default = {}
       THEN /\ rdeq' = [rdeq EXCEPT !.pc = "idle", !.ret = NULL]
            /\ rq' = rq
       ELSE /\ rdeq' = [rdeq EXCEPT !.pc = "idle", !.ret = ZMin(rq.default).job_id]
            /\ rq' = [rq EXCEPT !.default = @ \ {ZMin(rq.default)}]
    /\ UNCHANGED <<now, jobs, repoVars, serviceVars, jobQueueVars, rq_stamp, submitVars, billingVars, dl, lock>>

RedisQueueNext ==
    \/ \E j \in JobIds, method \in Methods : RqEnqueue(j, method)
    \/ RqDequeuePriority
    \/ RqDequeueDefault

SpecRedisQueue == Init /\ [][RedisQueueNext]_vars

\* ------------------------ create_job route, statement by statement (SpecSubmit)
\* SpecSubmit runs MaxJobs concurrent create_job requests of one owner.
RouteMethods == {"int8", "int4"}

\* create_job: job_cost.
job_cost(method) == IF method = "int8" THEN 1 ELSE 2

\* create_job: has_credits_available; without credits the request is refused
\* with PaymentRequired.
RouteCheckCredits(r, method) ==
    /\ req[r].pc = "idle"
    /\ req[r].res = "none"
    /\ req' = IF has_credits_available
              THEN [req EXCEPT ![r].pc = "create", ![r].method = method]
              ELSE [req EXCEPT ![r].method = method, ![r].res = "PaymentRequired"]
    /\ UNCHANGED <<now, jobs, repoVars, serviceVars, jobQueueVars, redisVars, sub,
                   billingVars, dl, lock>>

\* create_job: jobs_repo.create.
RouteInsert(r, size) ==
    /\ req[r].pc = "create"
    /\ \A k \in JobIds : k < r => Exists(k)
    /\ jobs' = [jobs EXCEPT ![r] = [CreateRow(size) EXCEPT
                                       !.download_token = generate_download_token(r)]]
    /\ req' = [req EXCEPT ![r].pc = "consume"]
    /\ UNCHANGED <<now, repoVars, serviceVars, jobQueueVars, redisVars, sub,
                   billingVars, dl, lock>>

\* create_job: consume_credit, get_active_subscription and the check; its Err
\* is the response of the request.
RouteConsumeRead(r) ==
    /\ req[r].pc = "consume"
    /\ req' = IF sub.credits_used >= sub.monthly_credits
              THEN [req EXCEPT ![r].pc = "idle", ![r].res = "NoCreditsAvailable"]
              ELSE [req EXCEPT ![r].pc = "consume_w", ![r].used = sub.credits_used]
    /\ UNCHANGED <<now, jobs, repoVars, serviceVars, jobQueueVars, redisVars, sub,
                   billingVars, dl, lock>>

\* create_job: consume_credit, UPDATE; then the pipeline task is spawned and the
\* request answers Created.
RouteConsumeWrite(r) ==
    /\ req[r].pc = "consume_w"
    /\ sub' = [sub EXCEPT !.credits_used = req[r].used + 1]
    /\ pipe' = [pipe EXCEPT ![r] = [IdleTask EXCEPT !.pc = "run"]]
    /\ req' = [req EXCEPT ![r].pc = "idle", ![r].used = NULL, ![r].res = "Created"]
    /\ UNCHANGED <<now, jobs, workerVars, serviceVars, jobQueueVars, redisVars,
                   billingVars, dl, lock>>

\* check_status: get_by_id and the status of the row.
check_status(j) == jobs[j].status

SubmitNext ==
    \/ \E r \in JobIds, method \in RouteMethods : RouteCheckCredits(r, method)
    \/ \E r \in JobIds, size \in OriginalSizes : RouteInsert(r, size)
    \/ \E r \in JobIds : RouteConsumeRead(r)
    \/ \E r \in JobIds : RouteConsumeWrite(r)

SpecSubmit == Init /\ [][SubmitNext]_vars

\* ------------------------------------------- BillingService (SpecBilling)
\* SpecBilling runs add_credits and consume_job_credits for one owner, one call
\* after the other.
RECURSIVE SumSeq(_)
SumSeq(seq) == IF seq = <<>> THEN 0 ELSE Head(seq) + SumSeq(Tail(seq))

\* Database::get_user_total_credits: SUM(amount).
get_user_total_credits == SumSeq(credit_tx)

\* Database::get_user_used_credits: SUM(ABS(amount)) WHERE amount < 0.
get_user_used_credits ==
    SumSeq([i \in 1..Len(credit_tx) |-> IF credit_tx[i] < 0 THEN 0 - credit_tx[i] ELSE 0])

\* BillingService::get_user_credits: remaining_credits.
remaining_credits == get_user_total_credits - get_user_used_credits

Grants == {1, 10}
Costs == {1, 2}

\* BillingService::add_credits: create_credit_transaction(amount).
BillAddCredits(amount) ==
    /\ Len(credit_tx) < MaxTx
    /\ credit_tx' = Append(credit_tx, amount)
    /\ bill' = "Ok"
    /\ UNCHANGED <<now, jobs, repoVars, serviceVars, jobQueueVars, redisVars,
                   submitVars, dl, lock>>

\* BillingService::consume_job_credits for a job whose credits_used is needed.
BillConsume(needed) ==
    /\ Len(credit_tx) < MaxTx
    /\ IF remaining_credits < needed
       THEN /\ bill' = "InsufficientCredits"
            /\ UNCHANGED credit_tx
       ELSE /\ bill' = "Ok"
            /\ credit_tx' = Append(credit_tx, 0 - needed)
    /\ UNCHANGED <<now, jobs, repoVars, serviceVars, jobQueueVars, redisVars,
                   submitVars, dl, lock>>

BillingNext ==
    \/ \E amount \in Grants : BillAddCredits(amount)
    \/ \E needed \in Costs : BillConsume(needed)

SpecBilling == Init /\ [][BillingNext]_vars

\* ------------------------------------------- download_result (SpecDownload)
\* SpecDownload runs create_job, its pipeline task and download_result; the
\* worker is not scheduled.
\* The column download_token of row j.
download_token(j) == jobs[j].download_token

\* The tokens a request presents: the tokens of the rows and one of no row.
Tokens == 0..MaxJobs

\* JobsRepository::verify_download_token.
verify_download_token(j, token) == download_token(j) = token

\* download_result: the status check, the token check and the file check.
\* on_disk is the outcome of file_path.exists() for job.output_path, a column
\* that neither the INSERT nor complete_job writes: the result is uploaded to
\* the object store and its URL is kept in download_url.
DownloadResult(j, token, on_disk) ==
    /\ Exists(j)
    /\ dl' = [job |-> j, token |-> token,
              res |-> IF jobs[j].status # "Completed" THEN "Forbidden"
                      ELSE IF ~verify_download_token(j, token) THEN "Unauthorized"
                      ELSE IF ~on_disk THEN "NotFound"
                      ELSE "Ok"]
    /\ UNCHANGED <<now, jobs, repoVars, serviceVars, jobQueueVars, redisVars,
                   submitVars, billingVars, lock>>

DownloadNext ==
    \/ \E j \in JobIds, size \in OriginalSizes : RouteCreateJob(j, size)
    \/ \E j \in JobIds, q \in QuantizedSizes : PipeCompleteRead(j, q)
    \/ \E j \in JobIds : PipeCompleteWrite(j)
    \/ \E j \in JobIds : PipeFailRead(j)
    \/ \E j \in JobIds : PipeFailWrite(j)
    \/ \E j \in JobIds : PipeInfraErr(j)
    \/ \E j \in JobIds : HandlerFailRead(j)
    \/ \E j \in JobIds : HandlerFailWrite(j)
    \/ \E j \in JobIds, token \in Tokens, on_disk \in BOOLEAN :
          DownloadResult(j, token, on_disk)

SpecDownload == Init /\ [][DownloadNext]_vars

\* ===================================================================== claims
\* C1: once a job is Completed, Failed or Cancelled, no step of any operation
\* changes its status again.
C1_TerminalIsFinal ==
    [][\A j \in JobIds :
         jobs[j].status \in Terminal => jobs'[j].status = jobs[j].status]_vars

\* The jobs that are Processing with an engine call in progress, in the
\* pipeline task or in the worker task.
EngineRunning ==
    {j \in JobIds : /\ jobs[j].status = "Processing"
                    /\ (pipe[j].pc = "run" \/ wtask[j].pc = "run")}

\* C2: the number of jobs that are Processing with an engine call in progress
\* never exceeds the configured maximum.
C2_ConcurrencyBound == Cardinality(EngineRunning) <= MaxConcurrent

\* C3: when the worker has completed the job between the read and the UPDATE
\* of the stuck-job check's fail_job, that UPDATE leaves the job Completed.
C3_MonitorKeepsCompleted ==
    [][(MonitorFailWrite /\ jobs[wloop.cur].status = "Completed")
         => jobs'[wloop.cur].status = "Completed"]_vars

\* C4: transitions are atomic per job: an UPDATE that takes effect finds the
\* status its caller read, so of two callers that read the same status only one
\* takes effect and the row never carries the writes of both.
C4_AtomicTransitions ==
    [][\A j \in JobIds :
         /\ (PipeCompleteWrite(j) \/ PipeFailWrite(j) \/ HandlerFailWrite(j))
               => jobs[j].status = pipe[j].obs
         /\ (WTaskUpdateWrite(j) \/ WTaskCompleteWrite(j) \/ WTaskExpiredFailWrite(j))
               => jobs[j].status = wtask[j].obs
         /\ (MonitorFailWrite /\ wloop.cur = j)
               => jobs[j].status = wloop.obs]_vars

\* The status changes of the state machine.
LegalChanges ==
    {<<"Queued", "Processing">>, <<"Processing", "Completed">>,
     <<"Processing", "Failed">>, <<"Queued", "Failed">>, <<"Queued", "Cancelled">>}

\* C5: every change of a job's status is one of Queued to Processing,
\* Processing to Completed, Processing to Failed, Queued to Failed and Queued
\* to Cancelled.
C5_OnlyLegalChanges ==
    [][\A j \in JobIds :
         (Exists(j) /\ jobs'[j].status # jobs[j].status)
            => <<jobs[j].status, jobs'[j].status>> \in LegalChanges]_vars

\* C6: a complete_job call on a job that a complete_job call has already
\* completed fails with AlreadyCompleted, does not reach its UPDATE and leaves
\* every field of every job as it was.
C6_SecondCompleteRejected ==
    [][\A j \in JobIds, q \in QuantizedSizes :
         /\ (PipeCompleteRead(j, q) /\ jobs[j].status = "Completed")
               => /\ pipe'[j].res = "AlreadyCompleted"
                  /\ pipe'[j].pc # "complete_w"
                  /\ jobs' = jobs
         /\ (WTaskCompleteRead(j, q) /\ jobs[j].status = "Completed")
               => /\ wtask'[j].res = "AlreadyCompleted"
                  /\ wtask'[j].pc # "complete_w"
                  /\ jobs' = jobs]_vars

\* C6, its case: the worker's complete_job was rejected on a job the pipeline's
\* complete_job had completed.
C6_Witness ==
    \E j \in JobIds :
        /\ wtask[j].pc = "release"
        /\ wtask[j].q # NULL
        /\ wtask[j].res = "AlreadyCompleted"
        /\ pipe[j].res = "Ok"
        /\ pipe[j].q # NULL
        /\ jobs[j].status = "Completed"

\* C7: a job becomes Cancelled only from the initial status (Queued, Pending in
\* the service stack); a cancel on a Processing or terminal job leaves its
\* status as it was.
C7_CancelOnlyFromQueued ==
    [][\A j \in JobIds :
         (jobs'[j].status = "Cancelled" /\ jobs[j].status # "Cancelled")
            => jobs[j].status \in Initial]_vars

\* C8: the transition to Processing takes effect only on a Queued job and then
\* started_at is set; on a job in another status it changes nothing.
C8_ProcessingOnlyFromQueued ==
    [][\A j \in JobIds :
         /\ (jobs'[j].status = "Processing" /\ jobs[j].status # "Processing")
               => /\ jobs[j].status \in Initial
                  /\ jobs'[j].started_at # NULL
         /\ (WTaskUpdateWrite(j) /\ jobs[j].status \notin Initial)
               => jobs' = jobs]_vars

\* C9: a job has an error message if and only if its status is Failed.
C9_ErrorMessageIffFailed ==
    \A j \in JobIds :
        Exists(j) => (jobs[j].error_message # "none" <=> jobs[j].status = "Failed")

\* C10: a job's quantized size, output reference and reduction percent are set
\* if and only if its status is Completed.
C10_ResultIffCompleted ==
    \A j \in JobIds :
        Exists(j) =>
            /\ jobs[j].quantized_size # NULL <=> jobs[j].status = "Completed"
            /\ jobs[j].output_ref # "none" <=> jobs[j].status = "Completed"
            /\ jobs[j].reduction_percent # NULL <=> jobs[j].status = "Completed"

\* C11: a dequeue takes from the highest tier that has an entry, takes the
\* entry of that tier that was enqueued first, and returns nothing only when
\* every tier is empty.
C11_TierFirstFifo ==
    [][/\ \A k \in {"priority", "default"} :
            \A m \in rq[k] \ rq'[k] :
                /\ \A n \in rq[k] : m.created_at <= n.created_at
                /\ k = "default" => rq.priority = {}
       /\ (RqDequeueDefault /\ rdeq'.ret = NULL)
            => (rq.priority = {} /\ rq.default = {})]_vars

\* The ids a queue holds.
Present(j) ==
    \E name \in {"high", "normal", "low"} :
        \E i \in 1..Len(queue[name]) : queue[name][i] = j

\* C12: enqueue of an id that is already in the queue leaves the queue as it
\* was.
C12_EnqueueIdempotent ==
    [][\A j \in JobIds, priority \in Priorities :
         (JqEnqueue(j, priority) /\ Present(j)) => queue' = queue]_vars

Refusals == {"PaymentRequired", "NoCreditsAvailable"}

\* C14: a submission refused for lack of credits has created no job.
C14_RefusalCreatesNothing ==
    \A r \in JobIds : req[r].res \in Refusals => ~Exists(r)

\* Credits granted and credits consumed, from the transactions.
Granted ==
    SumSeq([i \in 1..Len(credit_tx) |-> IF credit_tx[i] > 0 THEN credit_tx[i] ELSE 0])
Consumed ==
    SumSeq([i \in 1..Len(credit_tx) |-> IF credit_tx[i] < 0 THEN 0 - credit_tx[i] ELSE 0])

\* C15: the credits available to the owner are the credits granted minus the
\* credits consumed.
C15_AvailableIsGrantedMinusConsumed == remaining_credits = Granted - Consumed

\* C16: the credits a submission consumes are the cost of its method.
C16_ChargedIsCost ==
    [][\A r \in JobIds :
         RouteConsumeWrite(r)
            => sub'.credits_used = sub.credits_used + job_cost(req[r].method)]_vars

\* C17: the id of a job the worker picked up leaves the in-flight list when its
\* task ends, whatever the exit path: an id in the list has a task in progress.
C17_ReleasedOnExit ==
    \A j \in JobIds :
        (\E i \in 1..Len(svc_active) : svc_active[i] = j) => stask[j].pc # "idle"

\* C18: a worker task that ends does not leave its job Processing: an engine or
\* storage error has moved it to Failed.
C18_ErrorsCaught ==
    [][\A j \in JobIds : WTaskRelease(j) => jobs[j].status # "Processing"]_vars

\* C19: when the timeout elapses while the engine call has not returned, the
\* job is marked Failed: the fail_job of the timeout arm goes through unless
\* the job is Failed already.
C19_TimeoutFails ==
    [][\A j \in JobIds :
         (WTaskTimeout(j) /\ wtask[j].pc = "run")
            => (wtask'[j].pc = "expired_w" \/ jobs[j].status = "Failed")]_vars

\* C20: a job is handed to the engine once, so it never has two engine runs in
\* progress, and a Failed job never returns to Queued or Processing.
C20_NoRetry ==
    [][\A j \in JobIds :
         /\ ~(pipe'[j].pc = "run" /\ wtask'[j].pc = "run")
         /\ jobs[j].status = "Failed" => jobs'[j].status \notin {"Queued", "Processing"}]_vars

InQueue(j) ==
    \E name \in {"high", "normal", "low"} :
        \E i \in 1..Len(queue[name]) : queue[name][i] = j

\* C22: a job id is enqueued only after its record has been persisted: an id in
\* the queue, or about to be pushed, has its row, and a create_job whose INSERT
\* failed has enqueued nothing.
C22_WriteThenEnqueue ==
    \A j \in JobIds :
        /\ InQueue(j) => Exists(j)
        /\ submit[j].pc = "enqueue" => Exists(j)
        /\ submit[j].pc = "failed" => ~InQueue(j)

\* One job is persisted and enqueued, the INSERT of another has failed.
C22_Witness ==
    \E j, k \in JobIds : /\ InQueue(j)
                         /\ jobs[j].status = "Pending"
                         /\ submit[k].pc = "failed"

\* The worker task of job j is healthy: process_single_job is in progress and
\* its timeout has not elapsed.
Healthy(j) == wtask[j].pc \in Running /\ ~Expired(j)

\* C23: the monitor never force-fails a job whose worker task is still running
\* within the job timeout.
C23_MonitorSparesHealthy ==
    [][MonitorFailWrite => ~Healthy(wloop.cur)]_vars

\* C24: the stuck-job sweep does not depend on the pool: while every slot is
\* taken and the loop waits for a free one, a sweep that is due can run.
C24_SweepIndependent ==
    (wloop.pc = "acquire" /\ permits = 0 /\ StuckJobs # {})
        => ENABLED WorkerCheckStuck

\* C25: a submitted job is persisted with status Queued and no quantized size,
\* reduction percent, output reference or error message; the request that
\* answers Created has its row, and a status query before any task has touched
\* the job reports Queued.
C25_SubmitCreatesQueued ==
    \A r \in JobIds :
        /\ req[r].res = "Created" => Exists(r)
        /\ Exists(r) => /\ check_status(r) = "Queued"
                        /\ jobs[r].quantized_size = NULL
                        /\ jobs[r].reduction_percent = NULL
                        /\ jobs[r].output_ref = "none"
                        /\ jobs[r].error_message = "none"

\* A submission has been answered Created.
C25_Witness ==
    \E r \in JobIds : req[r].res = "Created" /\ check_status(r) = "Queued"

\* C26: a download succeeds only if the job is Completed and the token is the
\* job's download token, and a download of a completed job with the job's own
\* token succeeds.
C26_DownloadIffCompletedAndToken ==
    [][\A j \in JobIds, token \in Tokens, on_disk \in BOOLEAN :
         DownloadResult(j, token, on_disk)
            => (dl'.res = "Ok" <=> (/\ jobs[j].status = "Completed"
                                    /\ token = download_token(j)))]_vars

\* C27: a job whose cancellation went through is never afterwards set to
\* Processing nor handed to the engine, even when its id is dequeued later.
C27_CancelledNeverStarts ==
    [][\A j \in JobIds :
         (jobs[j].status = "Cancelled" /\ cancel[j].res = "Ok")
            => (jobs'[j].status # "Processing" /\ stask'[j].pc # "run")]_vars

\* The costs of the jobs created so far.
CreatedCost ==
    Total([r \in JobIds |-> IF Exists(r) THEN job_cost(req[r].method) ELSE 0], JobIds)

\* C28: whatever the interleaving of the owner's submissions, the costs of the
\* jobs created add up to no more than the credits the owner had before them.
C28_NoOverspend == CreatedCost <= sub.monthly_credits

\* C29: a status update issued for one job (start, fail, cancel or complete)
\* leaves the record of every other job as it was.
C29_UpdateTouchesOneJob ==
    [][\A j \in JobIds :
         (\/ SvcStart(j)
          \/ SvcEngineErr(j)
          \/ CancelWrite(j)
          \/ \E q \in QuantizedSizes : SvcComplete(j, q))
            => \A k \in JobIds \ {j} : jobs'[k] = jobs[k]]_vars

\* No task runs job j and the loop holds no claim on it.
WorkerLost(j) ==
    /\ wtask[j].pc = "idle"
    /\ j \notin active_jobs
    /\ wloop.pc \in {"iter", "acquire"} => (j \notin wloop.set /\ wloop.cur # j)

C31_QueuedEventuallyStarted ==
    \A j \in JobIds : InQueue(j) ~> (~InQueue(j) /\ stask[j].pc # "idle")

\* C32: a job is marked in-flight only by a worker that holds a concurrency
\* slot: no id sits in active_jobs without a task while every permit is taken,
\* and the service's list never exceeds its limit.
C32_SlotBeforeJob ==
    /\ \A j \in active_jobs : wtask[j].pc = "idle" => permits > 0
    /\ Len(svc_active) <= MaxConcurrent

\* Job k left its queue before job j did: active_jobs is pushed in dequeue
\* order, and lpush with rpop returns the ids of one list in enqueue order.
DequeuedBefore(k, j) ==
    \E a, b \in 1..Len(svc_active) :
        a < b /\ svc_active[a] = k /\ svc_active[b] = j

\* C33: within one tier jobs enter Processing in the order in which they were
\* enqueued: when a job is written Processing, no job of its tier that was
\* enqueued before it is still waiting to be started.
C33_TierOrderAtStart ==
    [][\A j, k \in JobIds :
         (/\ SvcStart(j)
          /\ submit[k].priority = submit[j].priority
          /\ DequeuedBefore(k, j))
         => stask[k].pc # "start"]_vars

\* C34: the tier of a job follows its owner's plan, Pro above Starter above
\* Free: whatever plans the owners of the jobs have, a dequeue never takes a
\* job while a job of an owner with a higher plan is waiting.
C34_HigherPlanFirst ==
    [][\A plan \in [JobIds -> SubscriptionPlans] :
         \A k, l \in {"priority", "default"} :
            \A m \in rq[k] \ rq'[k] :
                \A n \in rq[l] :
                    queue_priority(plan[n.job_id]) <= queue_priority(plan[m.job_id])]_vars

\* The operation that holds a permit of concurrency_limiter, and the one that
\* waits in acquire().
HoldsSlot(holder) == holder \in JobIds /\ wtask[holder].pc # "idle"
WaitsSlot(holder) == holder = Loop /\ wloop.pc = "acquire"

\* Blocked: the loop (with the monitor it calls) in acquire() with no permit
\* free or in lock().await with the Mutex taken; a task in lock().await with
\* the Mutex taken.
LoopBlocked ==
    \/ wloop.pc = "acquire" /\ permits = 0
    \/ /\ wloop.pc = "top" \/ (wloop.pc = "iter" /\ wloop.set # {})
       /\ lock # NULL
TaskBlocked(j) == wtask[j].pc = "release" /\ lock # NULL
AllBlocked ==
    /\ LoopBlocked
    /\ \A j \in JobIds : wtask[j].pc # "idle" => TaskBlocked(j)

\* C35: no operation holds the Mutex of active_jobs while it holds or waits
\* for a concurrency slot, and the loop, the tasks and the monitor are never
\* all blocked.
C35_LockAloneNoDeadlock ==
    /\ lock # NULL => ~HoldsSlot(lock) /\ ~WaitsSlot(lock)
    /\ ~AllBlocked

\* C35, as amended: no operation waits for a concurrency slot while it holds
\* the Mutex of active_jobs (a task takes the Mutex with its permit in hand),
\* and the loop, the tasks and the monitor are never all blocked.
C35_NoWaitUnderLockNoDeadlock ==
    /\ lock # NULL => ~WaitsSlot(lock)
    /\ lock \in JobIds => HoldsSlot(lock)
    /\ ~AllBlocked

\* C35, its case: the loop waits for a slot in acquire() while a task, its
\* permit in hand, holds the Mutex to remove its id.
C35_Witness ==
    /\ wloop.pc = "acquire"
    /\ permits = 0
    /\ lock \in JobIds
    /\ wtask[lock].pc = "locked"

\* (original - quantized) / original * 100, clamped into [0, 100] and rounded
\* to one decimal, in thousandths of a percent.
ClampedRounded(original, quantized) ==
    LET tenths == Nearest((original - quantized) * 1000, original)
    IN 100 * (IF tenths < 0 THEN 0 ELSE IF tenths > 1000 THEN 1000 ELSE tenths)

\* C36: the reduction percent stored on completion is (original - quantized) /
\* original * 100 clamped into [0, 100] and rounded to one decimal: 75.0 for
\* 1,000,000,000 and 250,000,000, and 0 for an output larger than the upload.
C36_ReductionClampedRounded ==
    /\ ReductionPercent(4, 1) = 75000
    /\ \A j \in JobIds :
         (jobs[j].status = "Completed" /\ jobs[j].original_size > 0)
         => jobs[j].reduction_percent =
              ClampedRounded(jobs[j].original_size, jobs[j].quantized_size)

\* C37: the credits charged to a job are those written at its creation: no
\* transition and no store update changes credits_used of an existing row.
C37_CreditsFixed ==
    [][\A j \in JobIds :
         Exists(j) => jobs'[j].credits_used = jobs[j].credits_used]_vars

\* C37, its case: two jobs of different cost, one started and completed, the
\* other cancelled; the store's updates have acted on both rows.
C37_Witness ==
    \E j, k \in JobIds :
        /\ jobs[j].status = "Completed"
        /\ jobs[k].status = "Cancelled"
        /\ jobs[j].credits_used = 4
        /\ jobs[k].credits_used = 1

\* C38: the download token of a job is generated when the job is created, and
\* no later operation (status update, completion, failure, sweep) changes it.
C38_TokenFixed ==
    [][\A j \in JobIds :
         /\ Exists(j) => jobs'[j].download_token = jobs[j].download_token
         /\ (~Exists(j) /\ jobs'[j].status # "Absent")
              => jobs'[j].download_token = generate_download_token(j)]_vars

\* C38, its case: a job completed and a job failed by the sweep, each with the
\* token of its creation.
C38_Witness ==
    \E j, k \in JobIds :
        /\ jobs[j].status = "Completed"
        /\ jobs[k].status = "Failed" /\ jobs[k].error_message = "stuck"
        /\ jobs[j].download_token = generate_download_token(j)
        /\ jobs[k].download_token = generate_download_token(k)

\* C39: the retention cleanup removes only finished jobs older than the
\* retention period: a row that disappears was Completed, Failed or Cancelled
\* and created before the cutoff, never Queued or Processing.
C39_CleanupOnlyFinished ==
    [][\A j \in JobIds :
         (Exists(j) /\ jobs'[j].status = "Absent")
         => /\ jobs[j].status \in Terminal
            /\ jobs[j].created_at < now - RetentionMinutes]_vars

====
